---- MODULE Spec2Model ----
(***************************************************************************)
(* Model of the BuildingCEF build driver (build.py): the sequential        *)
(* pipeline main() -> detect_os -> check_privileges -> run_bootstrap_script*)
(* -> build_cef_container -> run_cef_container, the exit status of the     *)
(* process, the messages written through the log functions, and the part   *)
(* of the file system and of the container runtime the driver touches.     *)
(***************************************************************************)
EXTENDS Integers, Sequences, FiniteSets, TLC

(***************************************************************************)
(* Bounds of the model.                                                    *)
(***************************************************************************)
\* number of command-line arguments after the script name
MaxArgs == 1
\* subprocess exit codes 0..MaxExitCode are explored (3010 is added for the
\* bootstrap script)
MaxExitCode == 2
\* number of consecutive invocations of the driver
MaxRuns == 2
\* number of distinct artifact files the container may leave in builds/
MaxArtifacts == 1
\* how many command-line arguments update-cef.py is given at most
MaxUpdateArgs == 2

(***************************************************************************)
(* Program constants.                                                      *)
(***************************************************************************)
RebootRequired == 3010
ManualSetupRequired == 2
StatusSuccess == 0
StatusFailure == 1
StatusInterrupted == 130

(***************************************************************************)
(* Inputs.                                                                 *)
(***************************************************************************)
ArgTokens == {"--help", "-h", "--verbose"}

RECURSIVE SeqsUpTo(_, _)
SeqsUpTo(S, n) ==
    IF n = 0 THEN {<<>>}
    ELSE LET shorter == SeqsUpTo(S, n - 1)
         IN  shorter \cup {Append(s, x) : s \in shorter, x \in S}

\* sys.argv: the script name followed by at most MaxArgs arguments
ArgLists == {<<"build.py">> \o rest : rest \in SeqsUpTo(ArgTokens, MaxArgs)}

\* platform.system() values, as sequences of characters
PlatformNames ==
    { <<"L","i","n","u","x">>, <<"L","I","N","U","X">>,
      <<"W","i","n","d","o","w","s">>,
      <<"D","a","r","w","i","n">>, <<"d","A","R","W","I","N">>,
      <<"F","r","e","e","B","S","D">>, <<"L","i","n","u","x","2">>,
      <<"m","a","c","o","s">>, <<>> }

\* state of build-config.json when load_config reads it
ConfigStates == {"absent", "empty_object", "valid", "invalid"}

\* outcome of ctypes.windll.shell32.IsUserAnAdmin()
ElevationOutcomes == {"admin", "not_admin", "raises"}

\* outcome of starting a child process in subprocess.run
LaunchOutcomes == {"started", "not_found", "os_error"}

\* outcome of writing the completion marker
MarkerOutcomes == {"ok", "open_fails", "write_fails"}

BootstrapExitCodes == (0 .. MaxExitCode) \cup {ManualSetupRequired, RebootRequired}
DockerExitCodes == 0 .. MaxExitCode
ArtifactNames == 1 .. MaxArtifacts

Hosts == {"linux", "windows", "macos"}
StepOrder == <<"detect", "privileges", "bootstrap", "build", "run">>
Subprocesses == {"bootstrap", "build", "run"}

VARIABLES
    argv,         \* sys.argv of the current invocation
    runNo,        \* number of the current invocation of the driver
    pc,           \* position of main()
    config,       \* what load_config found ("unread" before it ran)
    system,       \* platform.system() as read by detect_os
    host_os,      \* result of detect_os ("none" before it returned)
    elevation,    \* outcome of the elevation query ("unasked" if not made)
    attempted,    \* the steps main() has called, in call order
    returned,     \* the boolean each completed step returned, in order
    subState,     \* per subprocess: idle / active / exited / not_found / os_error / interrupted
    subCode,      \* per subprocess: its exit code (-1 while it has none)
    calls,        \* per subprocess: number of subprocess.run calls in this invocation
    cmd,          \* per subprocess: the command line passed to subprocess.run
    log,          \* messages emitted through log_* in this invocation
    usage,        \* print_help() was called in this invocation
    exitStatus,   \* status handed to sys.exit (-1 while main runs)
    raised,       \* main() ended by an exception it did not catch
    buildsDir,    \* the directory builds/ exists
    marker,       \* builds/cef_build_complete.marker
    artifacts,    \* other files in builds/
    images,       \* image tags known to the container runtime
    clock,        \* datetime.datetime.now()
    preMarker,    \* marker as it was when run_cef_container was called
    preArtifacts, \* artifacts as they were when run_cef_container was called
    markerIO,     \* outcome of the marker write ("none" if not attempted)
    startFs,      \* builds/ as it was when this invocation started
    \* scripts/update-cef.py
    uArgv,        \* sys.argv of update-cef.py
    uPc,          \* position of its main()
    cfgFile,      \* build-config.json as update-cef.py sees it
    cfgFile0,     \* build-config.json as it was when update-cef.py started
    uConfig,      \* what load_config returned
    uLatest,      \* what get_latest_cef_version returned
    uAnswer,      \* what input() returned ("unasked" outcome if not called)
    uSave,        \* outcome of save_config ("none" if not called)
    uSubmodule,   \* outcome of update_submodule (launch "none" if not called)
    uLog,         \* messages update-cef.py emitted
    uStatus,      \* status handed to sys.exit (-1 while main runs)
    \* scripts/setup-environment.py
    ePc,          \* position of its main()
    eResults,     \* what each check called so far returned or raised, in order
    passed,       \* main's counter
    failed,       \* main's counter
    eStatus       \* status handed to sys.exit (-1 while main runs)

buildVars == <<argv, runNo, pc, config, system, host_os, elevation, attempted, returned,
               subState, subCode, calls, cmd, log, usage, exitStatus, raised,
               buildsDir, marker, artifacts, images, clock, preMarker, preArtifacts,
               markerIO, startFs>>

updVars == <<uArgv, uPc, cfgFile, cfgFile0, uConfig, uLatest, uAnswer, uSave,
             uSubmodule, uLog, uStatus>>

envVars == <<ePc, eResults, passed, failed, eStatus>>

\* the two helper scripts, which do not run while the build driver does
scriptVars == <<updVars, envVars>>

vars == <<buildVars, updVars, envVars>>

fsVars == <<buildsDir, marker, artifacts, images, clock>>
preVars == <<preMarker, preArtifacts, markerIO, startFs>>
subVars == <<subState, subCode, calls, cmd>>
hostVars == <<system, host_os, elevation>>

(***************************************************************************)
(* Logging: log_info, log_success, log_warning, log_error, log_step.       *)
(* An entry is <<tag, text, argument>>; the printed line is the tag,       *)
(* the text and the interpolated argument.                                 *)
(***************************************************************************)
log_info(message, arg) == <<"INFO", message, arg>>
log_success(message, arg) == <<"SUCCESS", message, arg>>
log_warning(message, arg) == <<"WARNING", message, arg>>
log_error(message, arg) == <<"ERROR", message, arg>>
log_step(step, message, arg) == <<"STEP " \o ToString(step), message, arg>>

(***************************************************************************)
(* str.lower() on the characters a platform name can hold.                 *)
(***************************************************************************)
UpperLetters == <<"A","B","C","D","E","F","G","H","I","J","K","L","M",
                  "N","O","P","Q","R","S","T","U","V","W","X","Y","Z">>
LowerLetters == <<"a","b","c","d","e","f","g","h","i","j","k","l","m",
                  "n","o","p","q","r","s","t","u","v","w","x","y","z">>

LowerChar(c) ==
    IF \E i \in DOMAIN UpperLetters : UpperLetters[i] = c
    THEN LowerLetters[CHOOSE i \in DOMAIN UpperLetters : UpperLetters[i] = c]
    ELSE c

Lower(s) == [i \in DOMAIN s |-> LowerChar(s[i])]

\* the text of a sequence of characters
RECURSIVE Text(_)
Text(s) == IF s = <<>> THEN "" ELSE Head(s) \o Text(Tail(s))

(***************************************************************************)
(* Python's exception classes and the except clauses of the driver.        *)
(***************************************************************************)
ExceptionParent(cls) ==
    CASE cls = "FileNotFoundError" -> "OSError"
      [] cls = "PermissionError" -> "OSError"
      [] cls = "FileExistsError" -> "OSError"
      [] cls = "OSError" -> "Exception"
      [] cls = "JSONDecodeError" -> "ValueError"
      [] cls = "ValueError" -> "Exception"
      [] cls = "Exception" -> "BaseException"
      [] cls = "KeyboardInterrupt" -> "BaseException"
      [] OTHER -> "object"

RECURSIVE IsSubclass(_, _)
IsSubclass(cls, base) ==
    IF cls = base THEN TRUE
    ELSE IF cls = "object" THEN FALSE
    ELSE IsSubclass(ExceptionParent(cls), base)

\* mutant: "except Exception" placed before "except FileNotFoundError"
StepHandler_generic_first(exc) ==
    IF IsSubclass(exc, "Exception") THEN "generic" ELSE "propagate"

\* mutant: the steps' last clause written as a bare "except:", which also
\* catches KeyboardInterrupt
StepHandler_bare_except(exc) ==
    IF IsSubclass(exc, "FileNotFoundError") THEN "not_found" ELSE "generic"

\* the except clauses of run_bootstrap_script, build_cef_container and
\* run_cef_container: except FileNotFoundError / except Exception
StepHandler(exc) ==
    IF IsSubclass(exc, "FileNotFoundError") THEN "not_found"
    ELSE IF IsSubclass(exc, "Exception") THEN "generic"
    ELSE "propagate"

\* the except clauses of main: except KeyboardInterrupt / except Exception
MainHandler(exc) ==
    IF IsSubclass(exc, "KeyboardInterrupt") THEN "interrupt"
    ELSE IF IsSubclass(exc, "Exception") THEN "generic"
    ELSE "propagate"

\* mutant: an unrecognized platform silently defaults to linux
detect_os_default_linux(name) ==
    LET lowered == Lower(name)
    IN  IF lowered = <<"w","i","n","d","o","w","s">> THEN "windows"
        ELSE IF lowered = <<"d","a","r","w","i","n">> THEN "macos"
        ELSE "linux"

(***************************************************************************)
(* detect_os: the host profile of a platform name, "unsupported" when it   *)
(* raises.                                                                 *)
(***************************************************************************)
detect_os(name) ==
    LET lowered == Lower(name)
    IN  IF lowered = <<"l","i","n","u","x">> THEN "linux"
        ELSE IF lowered = <<"w","i","n","d","o","w","s">> THEN "windows"
        ELSE IF lowered = <<"d","a","r","w","i","n">> THEN "macos"
        ELSE "unsupported"

(***************************************************************************)
(* check_privileges: the value it returns and what it logs.                *)
(***************************************************************************)
\* the elevation query is made on the windows profile only
QueriesElevation(host) == host = "windows"

\* mutant: a query that cannot be made blocks the run (fail-closed)
check_privileges_fail_closed(host, elev) ==
    IF host = "windows" THEN elev = "admin" ELSE TRUE

\* mutant: the result of the elevation query is not acted upon
check_privileges_pass(host, elev) == TRUE

check_privileges(host, elev) ==
    IF host = "windows"
    THEN IF elev = "not_admin" THEN FALSE ELSE TRUE
    ELSE TRUE

check_privileges_log(host, elev) ==
    IF host = "windows"
    THEN CASE elev = "not_admin" ->
                <<log_error("Windows builds require Administrator privileges", ""),
                  log_info("Please run 'python build.py' from an Administrator PowerShell/Command Prompt", "")>>
           [] elev = "raises" ->
                <<log_warning("Could not determine if running as Administrator", "")>>
           [] OTHER -> <<>>
    ELSE <<>>

(***************************************************************************)
(* run_bootstrap_script: command line, classification of the exit code.    *)
(***************************************************************************)
script_path(host) ==
    CASE host = "linux" -> "./scripts/bootstrap/install-docker.sh"
      [] host = "windows" -> ".\\scripts\\bootstrap\\install-docker.ps1"
      [] host = "macos" -> "./scripts/bootstrap/install-docker-macos.sh"

cmd_prefix(host) ==
    CASE host = "linux" -> <<"/bin/bash">>
      [] host = "windows" -> <<"powershell.exe", "-ExecutionPolicy", "Bypass", "-File">>
      [] host = "macos" -> <<"/bin/bash">>

bootstrap_cmd(host) == cmd_prefix(host) \o <<script_path(host)>>

\* mutant: the "success, pending restart" code taken for success
bootstrap_returns_reboot_ok(rc) == rc = 0 \/ rc = RebootRequired

\* the value run_bootstrap_script returns for an exit code of the script
bootstrap_returns(rc) == rc = 0

\* mutant: the branch for exit code 2 is missing
bootstrap_log_without_manual(rc) ==
    IF rc = 0
    THEN <<log_success("Docker installation verified successfully", "")>>
    ELSE IF rc = RebootRequired
    THEN <<log_warning("System reboot required to complete Docker installation", ""),
           log_info("Please reboot and run 'python build.py' again", "")>>
    ELSE <<log_error("Bootstrap script failed with exit code ", ToString(rc))>>

\* what run_bootstrap_script logs for an exit code of the script
bootstrap_log(rc) ==
    IF rc = 0
    THEN <<log_success("Docker installation verified successfully", "")>>
    ELSE IF rc = RebootRequired
    THEN <<log_warning("System reboot required to complete Docker installation", ""),
           log_info("Please reboot and run 'python build.py' again", "")>>
    ELSE IF rc = ManualSetupRequired
    THEN <<log_warning("Manual Docker Desktop setup required", ""),
           log_info("Please complete Docker Desktop setup and run 'python build.py' again", "")>>
    ELSE <<log_error("Bootstrap script failed with exit code ", ToString(rc))>>

bootstrap_except_log(handler, host, exc) ==
    IF handler = "not_found"
    THEN <<log_error("Bootstrap script not found: ", script_path(host))>>
    ELSE <<log_error("Failed to run bootstrap script: ", exc)>>

(***************************************************************************)
(* build_cef_container: command line, classification of the exit code.     *)
(***************************************************************************)
dockerfile(host) ==
    CASE host = "linux" -> "Dockerfile.linux"
      [] host = "windows" -> "Dockerfile.windows"
      [] host = "macos" -> "Dockerfile.macos"

build_image_tag(host) == "cef-builder-" \o host

build_cmd(host) ==
    <<"docker", "build", "-t", build_image_tag(host), "-f", dockerfile(host), ".">>

\* mutant: build_cef_container does not look at the exit code
build_returns_always(rc) == TRUE

build_returns(rc) == rc = 0

build_log(rc, host) ==
    IF rc = 0
    THEN <<log_success("Successfully built ", build_image_tag(host))>>
    ELSE <<log_error("Docker build failed with exit code ", ToString(rc))>>

build_except_log(handler, exc) ==
    IF handler = "not_found"
    THEN <<log_error("Docker command not found. Please ensure Docker is installed and in PATH", "")>>
    ELSE <<log_error("Failed to build container: ", exc)>>

(***************************************************************************)
(* run_cef_container: command line, classification of the exit code.       *)
(***************************************************************************)
run_image_tag(host) == "cef-builder-" \o host

builds_dir == "/abs/builds"

\* mutant: the POSIX container path is used for every profile
volume_mount_posix_only(host) == builds_dir \o ":/workspace/builds"

volume_mount(host) ==
    IF host = "windows"
    THEN builds_dir \o ":C:\\workspace\\builds"
    ELSE builds_dir \o ":/workspace/builds"

run_cmd(host) ==
    <<"docker", "run", "--rm", "-v", volume_mount(host), run_image_tag(host)>>

\* mutant: the marker is written whatever the exit code
writes_marker_always(rc) == TRUE

\* run_cef_container opens the marker for writing exactly when docker run exited 0
writes_marker(rc) == rc = 0

run_log(rc) ==
    IF rc = 0
    THEN <<log_success("CEF build completed successfully", ""),
           log_info("Build artifacts available in: ", builds_dir)>>
    ELSE <<log_error("CEF build failed with exit code ", ToString(rc))>>

run_except_log(handler, exc) ==
    IF handler = "not_found"
    THEN <<log_error("Docker command not found. Please ensure Docker is installed and in PATH", "")>>
    ELSE <<log_error("Failed to run container: ", exc)>>

\* mutant: a failed marker write is swallowed
marker_exception_swallowed(outcome) == "none"

\* the exception a failed marker write raises ("none" when the write succeeds)
marker_exception(outcome) ==
    CASE outcome = "open_fails" -> "PermissionError"
      [] outcome = "write_fails" -> "OSError"
      [] OTHER -> "none"

\* the marker file after open(marker_file, 'w') and f.write(...)
marker_after(outcome, old, now) ==
    CASE outcome = "ok" -> [exists |-> TRUE, stamp |-> now]
      [] outcome = "write_fails" -> [exists |-> TRUE, stamp |-> 0]
      [] OTHER -> old

(***************************************************************************)
(* main: the help flag, and what main does with the value a step returned. *)
(***************************************************************************)
\* x in sys.argv
InArgv(x, args) == \E i \in DOMAIN args : args[i] = x

\* mutant: the short flag is forgotten
help_requested_long_only(args) == InArgv("--help", args)

help_requested(args) == InArgv("--help", args) \/ InArgv("-h", args)

\* mutant: main ignores the value a step returned
main_continues_always(ret) == TRUE

\* "if not step(host_os): ... return 1": main goes on only after True
main_continues(ret) == ret = TRUE

\* what main logs when a step returned False
main_failure_log(step) ==
    CASE step = "privileges" -> <<>>
      [] step = "bootstrap" -> <<log_error("Docker bootstrap failed", "")>>
      [] step = "build" -> <<log_error("Container build failed", "")>>
      [] step = "run" -> <<log_error("CEF build failed", "")>>

\* the status main returns when a step returned False
main_failure_status(step) == StatusFailure

\* mutant: a failed bootstrap is tried again
main_after_failure_retry(step) == IF step = "bootstrap" THEN "bootstrap" ELSE "done"

\* the position of main after a step returned False: "return 1" ends main
main_after_failure(step) == "done"

\* the position of main after a step returned True
main_next(step) ==
    CASE step = "detect" -> "privileges"
      [] step = "privileges" -> "bootstrap"
      [] step = "bootstrap" -> "build"
      [] step = "build" -> "run"
      [] step = "run" -> "done"

\* mutant: the closing message is logged as plain information
main_success_log_info_only ==
    <<log_info("CEF build process completed successfully!", ""),
      log_info("Your CEF build artifacts are ready in the 'builds/' directory", "")>>

main_success_log ==
    <<log_success("CEF build process completed successfully!", ""),
      log_info("Your CEF build artifacts are ready in the 'builds/' directory", "")>>

(***************************************************************************)
(* How a step ends, seen from main.                                        *)
(***************************************************************************)
\* the step returned ret after logging lg; main tests the value
StepReturned(step, ret, lg) ==
    /\ returned' = Append(returned, ret)
    /\ raised' = raised
    /\ IF main_continues(ret)
       THEN IF main_next(step) = "done"
            THEN /\ pc' = "done"
                 /\ exitStatus' = StatusSuccess
                 /\ log' = log \o lg \o main_success_log
            ELSE /\ pc' = main_next(step)
                 /\ exitStatus' = exitStatus
                 /\ log' = log \o lg
       ELSE /\ pc' = main_after_failure(step)
            /\ exitStatus' = main_failure_status(step)
            /\ log' = log \o lg \o main_failure_log(step)

\* exception exc leaves the step after it logged lg and reaches main's handlers
StepRaised(exc, lg) ==
    /\ returned' = returned
    /\ pc' = "done"
    /\ CASE MainHandler(exc) = "interrupt" ->
              /\ log' = log \o lg \o <<log_warning("Build process interrupted by user", "")>>
              /\ exitStatus' = StatusInterrupted
              /\ raised' = raised
         [] MainHandler(exc) = "generic" ->
              /\ log' = log \o lg \o <<log_error("Build process failed: ", exc)>>
              /\ exitStatus' = StatusFailure
              /\ raised' = raised
         [] OTHER ->
              /\ log' = log \o lg
              /\ exitStatus' = StatusFailure
              /\ raised' = TRUE

\* exception exc is raised inside the try block of a step that logged lg;
\* exceptLog is what the step's matching except clause logs
StepExcept(step, exc, lg, exceptLog) ==
    IF StepHandler(exc) = "propagate"
    THEN StepRaised(exc, lg)
    ELSE StepReturned(step, FALSE, lg \o exceptLog)

\* mutant: the child is started without waiting for it (as with Popen), so
\* main is already at what follows the step
blocked_in_no_wait(step) == main_next(step)

\* subprocess.run blocks the caller until the child has ended
blocked_in(step) == step \o "_wait"

\* mutant: os.makedirs without exist_ok raises when the directory exists
makedirs_raises_if_exists(exists) == exists

\* os.makedirs(builds_dir, exist_ok=True) does not raise for an existing directory
makedirs_raises(exists) == FALSE

\* the exception subprocess.run raises when the child cannot be started
launch_exception(outcome) ==
    IF outcome = "not_found" THEN "FileNotFoundError" ELSE "PermissionError"

NoMarker == [exists |-> FALSE, stamp |-> 0]

(***************************************************************************)
(* The helper scripts when they are not running.                           *)
(***************************************************************************)
EmptyDict == [k \in {} |-> ""]

UpdIdle ==
    /\ uArgv = <<"update-cef.py">>
    /\ uPc = "idle"
    /\ cfgFile = [kind |-> "missing", data |-> EmptyDict]
    /\ cfgFile0 = [kind |-> "missing", data |-> EmptyDict]
    /\ uConfig = [ok |-> FALSE, value |-> EmptyDict]
    /\ uLatest = [found |-> FALSE, version |-> "", branch |-> ""]
    /\ uAnswer = [outcome |-> "unasked", text |-> <<>>]
    /\ uSave = "none"
    /\ uSubmodule = [launch |-> "none", code |-> -1]
    /\ uLog = <<>>
    /\ uStatus = -1

EnvIdle ==
    /\ ePc = "idle"
    /\ eResults = <<>>
    /\ passed = 0
    /\ failed = 0
    /\ eStatus = -1

(***************************************************************************)
(* Initial state: a fresh invocation on a file system that may hold the    *)
(* output of an earlier one.                                               *)
(***************************************************************************)
Init ==
    /\ argv \in ArgLists
    /\ runNo = 1
    /\ pc = "start"
    /\ config = "unread"
    /\ system = <<>>
    /\ host_os = "none"
    /\ elevation = "unasked"
    /\ attempted = <<>>
    /\ returned = <<>>
    /\ subState = [s \in Subprocesses |-> "idle"]
    /\ subCode = [s \in Subprocesses |-> -1]
    /\ calls = [s \in Subprocesses |-> 0]
    /\ cmd = [s \in Subprocesses |-> <<>>]
    /\ log = <<>>
    /\ usage = FALSE
    /\ exitStatus = -1
    /\ raised = FALSE
    /\ buildsDir \in BOOLEAN
    /\ marker \in {NoMarker, [exists |-> TRUE, stamp |-> 1]}
    /\ artifacts \in SUBSET ArtifactNames
    /\ (marker.exists \/ artifacts # {}) => buildsDir
    /\ images = {}
    /\ clock = 1
    /\ preMarker = NoMarker
    /\ preArtifacts = {}
    /\ markerIO = "none"
    /\ startFs = [dir |-> buildsDir, marker |-> marker, artifacts |-> artifacts]
    /\ UpdIdle
    /\ EnvIdle

(***************************************************************************)
(* main, up to the first subprocess.                                       *)
(***************************************************************************)
MainHelp ==
    /\ UNCHANGED scriptVars
    /\ pc = "start"
    /\ help_requested(argv)
    /\ usage' = TRUE
    /\ pc' = "done"
    /\ exitStatus' = StatusSuccess
    /\ UNCHANGED <<argv, runNo, config, hostVars, attempted, returned, subVars,
                   log, raised, fsVars, preVars>>

MainStart ==
    /\ UNCHANGED scriptVars
    /\ pc = "start"
    /\ ~help_requested(argv)
    /\ log' = log \o <<log_info("BuildingCEF - Cross-platform CEF build system (Pure Python)", ""),
                       log_info("Starting CEF build process...", "")>>
    /\ pc' = "config"
    /\ UNCHANGED <<argv, runNo, config, hostVars, attempted, returned, subVars,
                   usage, exitStatus, raised, fsVars, preVars>>

\* load_config and the two lines main logs for a non-empty config; an invalid
\* file makes json.load raise outside main's try block
LoadConfig ==
    /\ UNCHANGED scriptVars
    /\ pc = "config"
    /\ \E c \in ConfigStates :
         /\ config' = c
         /\ CASE c = "invalid" ->
                   /\ pc' = "done"
                   /\ raised' = TRUE
                   /\ exitStatus' = StatusFailure
                   /\ log' = log
              [] c = "valid" ->
                   /\ pc' = "detect"
                   /\ log' = log \o <<log_info("Using CEF version: ", "cef_version"),
                                      log_info("Build type: ", "build_type")>>
                   /\ UNCHANGED <<raised, exitStatus>>
              [] OTHER ->
                   /\ pc' = "detect"
                   /\ UNCHANGED <<log, raised, exitStatus>>
    /\ UNCHANGED <<argv, runNo, hostVars, attempted, returned, subVars, usage,
                   fsVars, preVars>>

DetectOs ==
    /\ UNCHANGED scriptVars
    /\ pc = "detect"
    /\ attempted' = Append(attempted, "detect")
    /\ \E name \in PlatformNames :
         /\ system' = name
         /\ IF detect_os(name) = "unsupported"
            THEN /\ host_os' = host_os
                 /\ StepRaised("Exception", <<>>)
            ELSE /\ host_os' = detect_os(name)
                 /\ StepReturned("detect", TRUE,
                        <<log_info("Detected operating system: ", detect_os(name))>>)
    /\ UNCHANGED <<argv, runNo, config, elevation, subVars, usage, fsVars, preVars>>

CheckPrivileges ==
    /\ UNCHANGED scriptVars
    /\ pc = "privileges"
    /\ attempted' = Append(attempted, "privileges")
    /\ \E elev \in (IF QueriesElevation(host_os) THEN ElevationOutcomes ELSE {"unasked"}) :
         /\ elevation' = elev
         /\ StepReturned("privileges", check_privileges(host_os, elev),
                         check_privileges_log(host_os, elev))
    /\ UNCHANGED <<argv, runNo, config, system, host_os, subVars, usage, fsVars, preVars>>

(***************************************************************************)
(* Step 1: run_bootstrap_script.                                           *)
(***************************************************************************)
BootstrapLaunch ==
    /\ UNCHANGED scriptVars
    /\ pc = "bootstrap"
    /\ attempted' = Append(attempted, "bootstrap")
    /\ calls' = [calls EXCEPT !["bootstrap"] = @ + 1]
    /\ cmd' = [cmd EXCEPT !["bootstrap"] = bootstrap_cmd(host_os)]
    /\ \E o \in LaunchOutcomes :
         LET lg == <<log_step(1, "Ensuring Docker is installed on ", host_os),
                     log_info("Running bootstrap script: ", script_path(host_os))>>
             exc == launch_exception(o)
         IN  IF o = "started"
             THEN /\ subState' = [subState EXCEPT !["bootstrap"] = "active"]
                  /\ pc' = blocked_in("bootstrap")
                  /\ log' = log \o lg
                  /\ UNCHANGED <<returned, exitStatus, raised>>
             ELSE /\ subState' = [subState EXCEPT !["bootstrap"] = o]
                  /\ StepExcept("bootstrap", exc, lg,
                                bootstrap_except_log(StepHandler(exc), host_os, exc))
    /\ UNCHANGED <<argv, runNo, config, hostVars, subCode, usage, fsVars, preVars>>

BootstrapExit ==
    /\ UNCHANGED scriptVars
    /\ pc = "bootstrap_wait"
    /\ \E rc \in BootstrapExitCodes :
         /\ subState' = [subState EXCEPT !["bootstrap"] = "exited"]
         /\ subCode' = [subCode EXCEPT !["bootstrap"] = rc]
         /\ StepReturned("bootstrap", bootstrap_returns(rc), bootstrap_log(rc))
    /\ UNCHANGED <<argv, runNo, config, hostVars, attempted, calls, cmd, usage,
                   fsVars, preVars>>

BootstrapInterrupt ==
    /\ UNCHANGED scriptVars
    /\ pc = "bootstrap_wait"
    /\ subState' = [subState EXCEPT !["bootstrap"] = "interrupted"]
    /\ StepExcept("bootstrap", "KeyboardInterrupt", <<>>,
                  bootstrap_except_log(StepHandler("KeyboardInterrupt"), host_os,
                                       "KeyboardInterrupt"))
    /\ UNCHANGED <<argv, runNo, config, hostVars, attempted, subCode, calls, cmd,
                   usage, fsVars, preVars>>

(***************************************************************************)
(* Step 2: build_cef_container.                                            *)
(***************************************************************************)
BuildLaunch ==
    /\ UNCHANGED scriptVars
    /\ pc = "build"
    /\ attempted' = Append(attempted, "build")
    /\ calls' = [calls EXCEPT !["build"] = @ + 1]
    /\ cmd' = [cmd EXCEPT !["build"] = build_cmd(host_os)]
    /\ \E o \in LaunchOutcomes :
         LET lg == <<log_step(2, "Building CEF container for ", host_os),
                     log_info("Building Docker image: ", build_image_tag(host_os)),
                     log_info("Using Dockerfile: ", dockerfile(host_os)),
                     log_info("Running: ", "docker build")>>
             exc == launch_exception(o)
         IN  IF o = "started"
             THEN /\ subState' = [subState EXCEPT !["build"] = "active"]
                  /\ pc' = blocked_in("build")
                  /\ log' = log \o lg
                  /\ UNCHANGED <<returned, exitStatus, raised>>
             ELSE /\ subState' = [subState EXCEPT !["build"] = o]
                  /\ StepExcept("build", exc, lg, build_except_log(StepHandler(exc), exc))
    /\ UNCHANGED <<argv, runNo, config, hostVars, subCode, usage, fsVars, preVars>>

BuildExit ==
    /\ UNCHANGED scriptVars
    /\ pc = "build_wait"
    /\ \E rc \in DockerExitCodes :
         /\ subState' = [subState EXCEPT !["build"] = "exited"]
         /\ subCode' = [subCode EXCEPT !["build"] = rc]
         /\ images' = IF rc = 0 THEN images \cup {cmd["build"][4]} ELSE images
         /\ StepReturned("build", build_returns(rc), build_log(rc, host_os))
    /\ UNCHANGED <<argv, runNo, config, hostVars, attempted, calls, cmd, usage,
                   buildsDir, marker, artifacts, clock, preVars>>

BuildInterrupt ==
    /\ UNCHANGED scriptVars
    /\ pc = "build_wait"
    /\ subState' = [subState EXCEPT !["build"] = "interrupted"]
    /\ StepExcept("build", "KeyboardInterrupt", <<>>,
                  build_except_log(StepHandler("KeyboardInterrupt"), "KeyboardInterrupt"))
    /\ UNCHANGED <<argv, runNo, config, hostVars, attempted, subCode, calls, cmd,
                   usage, fsVars, preVars>>

(***************************************************************************)
(* Step 3: run_cef_container.                                              *)
(***************************************************************************)
RunLaunch ==
    /\ UNCHANGED scriptVars
    /\ pc = "run"
    /\ attempted' = Append(attempted, "run")
    /\ preMarker' = marker
    /\ preArtifacts' = artifacts
    /\ IF makedirs_raises(buildsDir)
       THEN /\ StepRaised("FileExistsError",
                           <<log_step(3, "Running CEF build container for ", host_os)>>)
            /\ UNCHANGED <<buildsDir, subState, calls, cmd>>
       ELSE /\ buildsDir' = TRUE
            /\ calls' = [calls EXCEPT !["run"] = @ + 1]
            /\ cmd' = [cmd EXCEPT !["run"] = run_cmd(host_os)]
            /\ \E o \in LaunchOutcomes :
                 LET lg == <<log_step(3, "Running CEF build container for ", host_os),
                             log_info("Running: ", "docker run"),
                             log_info("Output directory: ", builds_dir),
                             log_warning("This will take a significant amount of time (1-3 hours depending on hardware)", "")>>
                     exc == launch_exception(o)
                 IN  IF o = "started"
                     THEN /\ subState' = [subState EXCEPT !["run"] = "active"]
                          /\ pc' = blocked_in("run")
                          /\ log' = log \o lg
                          /\ UNCHANGED <<returned, exitStatus, raised>>
                     ELSE /\ subState' = [subState EXCEPT !["run"] = o]
                          /\ StepExcept("run", exc, lg, run_except_log(StepHandler(exc), exc))
    /\ UNCHANGED <<argv, runNo, config, hostVars, subCode, usage, marker, artifacts,
                   images, clock, markerIO, startFs>>

\* docker run ends with an exit code; the container may have left files in
\* the mounted directory whatever the code
RunExit ==
    /\ UNCHANGED scriptVars
    /\ pc = "run_wait"
    /\ \E rc \in DockerExitCodes, written \in SUBSET ArtifactNames :
         \E mo \in (IF writes_marker(rc) THEN MarkerOutcomes ELSE {"none"}) :
           /\ subState' = [subState EXCEPT !["run"] = "exited"]
           /\ subCode' = [subCode EXCEPT !["run"] = rc]
           /\ artifacts' = artifacts \cup written
           /\ markerIO' = mo
           /\ clock' = IF mo = "none" THEN clock ELSE clock + 1
           /\ marker' = marker_after(mo, marker, clock + 1)
           /\ IF marker_exception(mo) = "none"
              THEN StepReturned("run", rc = 0, run_log(rc))
              ELSE StepExcept("run", marker_exception(mo), run_log(rc),
                              run_except_log(StepHandler(marker_exception(mo)),
                                             marker_exception(mo)))
    /\ UNCHANGED <<argv, runNo, config, hostVars, attempted, calls, cmd, usage,
                   buildsDir, images, preMarker, preArtifacts, startFs>>

RunInterrupt ==
    /\ UNCHANGED scriptVars
    /\ pc = "run_wait"
    /\ subState' = [subState EXCEPT !["run"] = "interrupted"]
    /\ \E written \in SUBSET ArtifactNames : artifacts' = artifacts \cup written
    /\ StepExcept("run", "KeyboardInterrupt", <<>>,
                  run_except_log(StepHandler("KeyboardInterrupt"), "KeyboardInterrupt"))
    /\ UNCHANGED <<argv, runNo, config, hostVars, attempted, subCode, calls, cmd,
                   usage, buildsDir, marker, images, clock, preVars>>

(***************************************************************************)
(* The user invokes the driver again once it has exited.                   *)
(***************************************************************************)
Rerun ==
    /\ UNCHANGED scriptVars
    /\ pc = "done"
    /\ runNo < MaxRuns
    /\ runNo' = runNo + 1
    /\ argv' \in ArgLists
    /\ pc' = "start"
    /\ config' = "unread"
    /\ system' = <<>>
    /\ host_os' = "none"
    /\ elevation' = "unasked"
    /\ attempted' = <<>>
    /\ returned' = <<>>
    /\ subState' = [s \in Subprocesses |-> "idle"]
    /\ subCode' = [s \in Subprocesses |-> -1]
    /\ calls' = [s \in Subprocesses |-> 0]
    /\ cmd' = [s \in Subprocesses |-> <<>>]
    /\ log' = <<>>
    /\ usage' = FALSE
    /\ exitStatus' = -1
    /\ raised' = FALSE
    /\ preMarker' = NoMarker
    /\ preArtifacts' = {}
    /\ markerIO' = "none"
    /\ startFs' = [dir |-> buildsDir, marker |-> marker, artifacts |-> artifacts]
    /\ UNCHANGED fsVars

Next ==
    \/ MainHelp
    \/ MainStart
    \/ LoadConfig
    \/ DetectOs
    \/ CheckPrivileges
    \/ BootstrapLaunch
    \/ BootstrapExit
    \/ BootstrapInterrupt
    \/ BuildLaunch
    \/ BuildExit
    \/ BuildInterrupt
    \/ RunLaunch
    \/ RunExit
    \/ RunInterrupt
    \/ Rerun

Spec == Init /\ [][Next]_vars

\* the interpreter keeps executing the driver, and a blocking subprocess call
\* ends (by exit or by interrupt)
FairSpec == Spec /\ WF_vars(Next)

(***************************************************************************)
(* Vocabulary of the properties.                                           *)
(***************************************************************************)
Attempted(step) == \E i \in DOMAIN attempted : attempted[i] = step

Logged(entry) == \E i \in DOMAIN log : log[i] = entry

\* subprocess s ran to completion with exit code rc
Exited(s, rc) == subState[s] = "exited" /\ subCode[s] = rc

\* subprocess s ran to completion with a non-zero exit code
ExitedNonZero(s) == subState[s] = "exited" /\ subCode[s] # 0

NoSubprocessCalled == \A s \in Subprocesses : calls[s] = 0 /\ subState[s] = "idle"

(***************************************************************************)
(* C1: in every run that reaches the bootstrap step, a bootstrap script    *)
(* that exits 0 is followed by the invocation of docker build (main stands *)
(* at the call of build_cef_container, which is enabled, or has made it),  *)
(* and a bootstrap script that exits 2 or 3010 halts the driver with       *)
(* neither docker build nor docker run invoked in that run.                *)
(***************************************************************************)
C1_BootstrapGate ==
    /\ Exited("bootstrap", 0) =>
         IF pc = "build"
         THEN ENABLED BuildLaunch
         ELSE Attempted("build") /\ calls["build"] = 1
    /\ (Exited("bootstrap", 2) \/ Exited("bootstrap", 3010)) =>
         /\ pc = "done"
         /\ ~Attempted("build") /\ ~Attempted("run")
         /\ calls["build"] = 0 /\ calls["run"] = 0
         /\ subState["build"] = "idle" /\ subState["run"] = "idle"

\* macos, the bootstrap script exited 2 and the driver has halted
C1_Witness ==
    /\ host_os = "macos"
    /\ Exited("bootstrap", 2)
    /\ pc = "done"

(***************************************************************************)
(* C2: the exit status tells three outcomes apart: after an                *)
(* action-required halt (bootstrap exit code 2 or 3010) main returns a     *)
(* status that is neither 0 nor the status 1 of a failed step.             *)
(***************************************************************************)
C2_ThreeWayStatus ==
    pc = "done" =>
      /\ (Exited("bootstrap", 2) \/ Exited("bootstrap", 3010)) =>
            exitStatus \notin {0, 1}
      /\ (\/ (ExitedNonZero("bootstrap") /\ subCode["bootstrap"] \notin {2, 3010})
          \/ ExitedNonZero("build")
          \/ ExitedNonZero("run")) => exitStatus = 1

(***************************************************************************)
(* C3: the steps are called in the order host detection, privilege check,  *)
(* bootstrap, image build, container run; a step is called only after      *)
(* every earlier step of the run returned True; once a step has returned   *)
(* False or raised, main has ended and no further step is called.          *)
(***************************************************************************)
C3_StrictSequence ==
    /\ Len(attempted) <= Len(StepOrder)
    /\ \A i \in DOMAIN attempted : attempted[i] = StepOrder[i]
    /\ Len(returned) <= Len(attempted)
    /\ \A i \in DOMAIN attempted :
         \A j \in 1 .. (i - 1) : j \in DOMAIN returned /\ returned[j] = TRUE
    /\ (\E j \in DOMAIN returned : returned[j] = FALSE) =>
         pc = "done" /\ Len(attempted) = Len(returned)
    /\ \A s \in Subprocesses : calls[s] > 0 => Attempted(s)

\* the image build returned False and the driver stopped before the container run
C3_Witness ==
    /\ attempted = <<"detect", "privileges", "bootstrap", "build">>
    /\ returned = <<TRUE, TRUE, TRUE, FALSE>>
    /\ pc = "done"

(***************************************************************************)
(* C4: a non-zero exit code of docker build makes main return 1 without    *)
(* docker run being invoked; a non-zero exit code of docker run makes main *)
(* return 1 without the overall completion message.                        *)
(***************************************************************************)
C4_DockerFailureHalts ==
    /\ ExitedNonZero("build") =>
         /\ pc = "done" /\ exitStatus = 1 /\ ~raised
         /\ ~Attempted("run") /\ calls["run"] = 0 /\ subState["run"] = "idle"
    /\ ExitedNonZero("run") =>
         /\ pc = "done" /\ exitStatus = 1 /\ ~raised
         /\ ~Logged(<<"SUCCESS", "CEF build process completed successfully!", "">>)

\* docker run exited with a non-zero code and main has returned
C4_Witness ==
    /\ ExitedNonZero("run")
    /\ pc = "done"

(***************************************************************************)
(* C5 as stated: run_cef_container writes the completion marker if and     *)
(* only if docker run exits 0: after exit 0 the marker holds a new         *)
(* timestamp, and after any other end of the call the marker and the       *)
(* files that were in builds/ before the call are as they were.            *)
(***************************************************************************)
RunCallEnded == subState["run"] \in {"exited", "not_found", "os_error", "interrupted"}

C5_MarkerIffExitZero ==
    RunCallEnded =>
      IF Exited("run", 0)
      THEN marker = [exists |-> TRUE, stamp |-> clock] /\ marker # preMarker
      ELSE marker = preMarker /\ preArtifacts \subseteq artifacts

(***************************************************************************)
(* C5 amended: run_cef_container attempts the marker write if and only if  *)
(* docker run exits 0.  A write that succeeds leaves a marker with a new   *)
(* timestamp and the function returns True; a write that fails makes it    *)
(* return False with the marker as before the call (open failed) or        *)
(* truncated (write failed).  After a non-zero exit, an interrupt or a     *)
(* failed launch the marker is as before the call.  In every case the      *)
(* files that were in builds/ before the call are still there.             *)
(***************************************************************************)
C5_MarkerOnlyAfterExitZero ==
    RunCallEnded =>
      /\ preArtifacts \subseteq artifacts
      /\ (markerIO # "none") <=> Exited("run", 0)
      /\ markerIO = "none" => marker = preMarker
      /\ markerIO = "ok" =>
           /\ marker = [exists |-> TRUE, stamp |-> clock]
           /\ marker # preMarker
           /\ returned = <<TRUE, TRUE, TRUE, TRUE, TRUE>>
      /\ markerIO = "open_fails" =>
           marker = preMarker /\ returned = <<TRUE, TRUE, TRUE, TRUE, FALSE>>
      /\ markerIO = "write_fails" =>
           /\ marker = [exists |-> TRUE, stamp |-> 0]
           /\ returned = <<TRUE, TRUE, TRUE, TRUE, FALSE>>

\* docker run exited non-zero over an existing marker and existing artifacts
C5_Witness ==
    /\ ExitedNonZero("run")
    /\ preMarker.exists
    /\ preArtifacts # {}
    /\ pc = "done"

(***************************************************************************)
(* C6 as stated: on a recognized host where the privilege check passed,    *)
(* bootstrap, docker build and docker run all exiting 0 give exit status   *)
(* 0, a marker in the output directory, and exactly the four success       *)
(* messages in order.                                                      *)
(***************************************************************************)
IsSuccessEntry(e) == e[1] = "SUCCESS"

SuccessTexts ==
    LET picked == SelectSeq(log, IsSuccessEntry)
    IN  [i \in DOMAIN picked |-> picked[i][2]]

FourSuccessTexts ==
    <<"Docker installation verified successfully",
      "Successfully built ",
      "CEF build completed successfully",
      "CEF build process completed successfully!">>

AllThreeExitedZero ==
    /\ host_os \in Hosts
    /\ Len(returned) >= 2 /\ returned[2] = TRUE
    /\ Exited("bootstrap", 0) /\ Exited("build", 0) /\ Exited("run", 0)

HappyEnd ==
    /\ pc = "done" /\ exitStatus = 0 /\ ~raised
    /\ buildsDir /\ marker.exists /\ marker.stamp = clock
    /\ SuccessTexts = FourSuccessTexts

C7_WindowsNotElevated ==
    (host_os = "windows" /\ elevation = "not_admin") =>
      /\ returned = <<TRUE, FALSE>>
      /\ attempted = <<"detect", "privileges">>
      /\ pc = "done" /\ exitStatus = 1 /\ ~raised
      /\ NoSubprocessCalled

C7_Witness ==
    /\ host_os = "windows"
    /\ elevation = "not_admin"
    /\ pc = "done"

(***************************************************************************)
(* C8: detect_os maps the platform names linux, windows, darwin, in any    *)
(* letter case, to linux, windows, macos; for every other name it raises,  *)
(* no profile is returned, main returns 1 and neither the privilege check  *)
(* nor any subprocess is invoked.                                          *)
(***************************************************************************)
SameLetter(c, d) ==
    \/ c = d
    \/ \E i \in DOMAIN UpperLetters : {c, d} = {UpperLetters[i], LowerLetters[i]}

MatchesIgnoringCase(name, word) ==
    /\ Len(name) = Len(word)
    /\ \A i \in DOMAIN name : SameLetter(name[i], word[i])

ExpectedProfile(name) ==
    IF MatchesIgnoringCase(name, <<"l","i","n","u","x">>) THEN "linux"
    ELSE IF MatchesIgnoringCase(name, <<"w","i","n","d","o","w","s">>) THEN "windows"
    ELSE IF MatchesIgnoringCase(name, <<"d","a","r","w","i","n">>) THEN "macos"
    ELSE "unsupported"

C8_DetectOs ==
    Attempted("detect") =>
      IF ExpectedProfile(system) = "unsupported"
      THEN /\ host_os = "none"
           /\ pc = "done" /\ exitStatus = 1 /\ ~raised
           /\ attempted = <<"detect">> /\ returned = <<>>
           /\ elevation = "unasked"
           /\ NoSubprocessCalled
      ELSE host_os = ExpectedProfile(system)

\* an unrecognized platform name ended the run
C8_Witness ==
    /\ system = <<"F","r","e","e","B","S","D">>
    /\ pc = "done"
    /\ exitStatus = 1

(***************************************************************************)
(* C9: with --help or -h among the arguments main prints the usage and     *)
(* returns 0; the config is not loaded, the host is not detected, no       *)
(* privilege check and no subprocess is made, and the output directory     *)
(* and the marker are as they were when the run started.                   *)
(***************************************************************************)
HelpFlagGiven == \E i \in DOMAIN argv : argv[i] \in {"--help", "-h"}

C9_HelpOnly ==
    (HelpFlagGiven /\ pc # "start") =>
      /\ pc = "done" /\ usage /\ exitStatus = 0 /\ ~raised
      /\ config = "unread"
      /\ system = <<>> /\ host_os = "none" /\ elevation = "unasked"
      /\ attempted = <<>> /\ log = <<>>
      /\ NoSubprocessCalled
      /\ [dir |-> buildsDir, marker |-> marker, artifacts |-> artifacts] = startFs

C9_Witness ==
    /\ argv = <<"build.py", "-h">>
    /\ pc = "done"
    /\ ~startFs.dir

(***************************************************************************)
(* C10: a KeyboardInterrupt delivered while main is blocked in the         *)
(* bootstrap, docker build or docker run subprocess call makes main return *)
(* 130, which is neither 0 nor 1; the interrupted step does not return     *)
(* False and logs no error, and no later step is called.                   *)
(***************************************************************************)
C10_InterruptStatus ==
    \A s \in Subprocesses :
      subState[s] = "interrupted" =>
        /\ pc = "done" /\ exitStatus = 130 /\ exitStatus \notin {0, 1} /\ ~raised
        /\ attempted[Len(attempted)] = s
        /\ Len(returned) = Len(attempted) - 1
        /\ \A i \in DOMAIN returned : returned[i] = TRUE
        /\ \A i \in DOMAIN log : log[i][1] # "ERROR"
        /\ log[Len(log)] = <<"WARNING", "Build process interrupted by user", "">>

C10_Witness ==
    /\ subState["build"] = "interrupted"
    /\ pc = "done"

(***************************************************************************)
(* What a run is expected to do, read off what the run itself observed     *)
(* (arguments, platform name, elevation answer, how each subprocess ended, *)
(* outcome of the marker write) and never off the state earlier runs left  *)
(* behind.  cfg is the state of the config file the expectation assumes.   *)
(***************************************************************************)
StepOutcome(s) ==
    CASE subState[s] = "exited" /\ subCode[s] = 0 -> "ok"
      [] subState[s] = "interrupted" -> "interrupt"
      [] subState[s] \in {"exited", "not_found", "os_error"} -> "fail"
      [] OTHER -> "missing"

StatusOf(outcome) ==
    CASE outcome = "fail" -> 1
      [] outcome = "interrupt" -> 130
      [] OTHER -> -1

FirstSteps(n) == SubSeq(StepOrder, 1, n)

ExpectedResult(cfg) ==
    IF HelpFlagGiven THEN [steps |-> <<>>, status |-> 0]
    ELSE IF cfg = "invalid" THEN [steps |-> <<>>, status |-> 1]
    ELSE IF ExpectedProfile(system) = "unsupported"
    THEN [steps |-> FirstSteps(1), status |-> 1]
    ELSE IF ExpectedProfile(system) = "windows" /\ elevation = "not_admin"
    THEN [steps |-> FirstSteps(2), status |-> 1]
    ELSE IF StepOutcome("bootstrap") # "ok"
    THEN [steps |-> FirstSteps(3), status |-> StatusOf(StepOutcome("bootstrap"))]
    ELSE IF StepOutcome("build") # "ok"
    THEN [steps |-> FirstSteps(4), status |-> StatusOf(StepOutcome("build"))]
    ELSE IF StepOutcome("run") # "ok"
    THEN [steps |-> FirstSteps(5), status |-> StatusOf(StepOutcome("run"))]
    ELSE [steps |-> FirstSteps(5), status |-> IF markerIO = "ok" THEN 0 ELSE 1]

ActualResult == [steps |-> attempted, status |-> exitStatus]

(***************************************************************************)
(* C11: the config file never blocks the pipeline: once load_config has    *)
(* run, whatever it found (absent, valid, invalid), main goes on to host   *)
(* detection, and the steps called and the exit status of the run are      *)
(* those of a run without a config file.                                   *)
(***************************************************************************)
C11_ConfigNeverBlocks ==
    /\ config # "unread" => (~raised /\ (pc = "detect" \/ Attempted("detect")))
    /\ pc = "done" => ActualResult = ExpectedResult("absent")

(***************************************************************************)
(* C12: the driver is re-entrant: in every run, the first and the ones     *)
(* that follow it, the steps called and the exit status are those          *)
(* expected from what that run observed, whatever the earlier run left     *)
(* behind; an existing output directory, image tag or marker never ends a  *)
(* run or skips a step; and a run that returns 0 leaves a marker newer     *)
(* than the one it found.                                                  *)
(***************************************************************************)
C12_Reentrant ==
    /\ pc = "done" => ActualResult = ExpectedResult(config)
    /\ (pc = "done" /\ exitStatus = 0 /\ ~HelpFlagGiven) =>
         /\ marker.exists
         /\ marker.stamp = clock
         /\ marker.stamp > startFs.marker.stamp
         /\ build_image_tag(host_os) \in images

\* a second run succeeds over the directory, image and marker of a first
\* successful run
C12_Witness ==
    /\ runNo = 2
    /\ pc = "done" /\ exitStatus = 0 /\ ~HelpFlagGiven
    /\ startFs.dir /\ startFs.marker.exists /\ startFs.marker.stamp = 2
    /\ marker.stamp = 3

(***************************************************************************)
(* C13: run_bootstrap_script sorts every exit code of the script into one  *)
(* of four outcomes that can be told apart: 0 is success (returns True),   *)
(* 3010 a reboot-required halt, 2 a manual-setup-required halt, any other  *)
(* code a failure whose message carries the code; only 0 returns True.     *)
(***************************************************************************)
BootstrapMessages ==
    {log[i] : i \in {j \in DOMAIN log :
        log[j][2] \in {"Docker installation verified successfully",
                       "System reboot required to complete Docker installation",
                       "Manual Docker Desktop setup required",
                       "Bootstrap script failed with exit code "}}}

C13_BootstrapClassification ==
    subState["bootstrap"] = "exited" =>
      LET rc == subCode["bootstrap"]
      IN  /\ Len(returned) >= 3
          /\ returned[3] = (rc = 0)
          /\ BootstrapMessages =
               IF rc = 0
               THEN {<<"SUCCESS", "Docker installation verified successfully", "">>}
               ELSE IF rc = 3010
               THEN {<<"WARNING", "System reboot required to complete Docker installation", "">>}
               ELSE IF rc = 2
               THEN {<<"WARNING", "Manual Docker Desktop setup required", "">>}
               ELSE {<<"ERROR", "Bootstrap script failed with exit code ", ToString(rc)>>}

\* the script exited with a code that is none of 0, 2, 3010
C13_Witness ==
    /\ subState["bootstrap"] = "exited"
    /\ subCode["bootstrap"] \notin {0, 2, 3010}
    /\ pc = "done"

(***************************************************************************)
(* C14: no retries: in one run each of the three subprocesses is launched  *)
(* at most once and each step is called at most once, whatever happened.   *)
(***************************************************************************)
C14_NoRetries ==
    \A s \in Subprocesses :
      /\ calls[s] <= 1
      /\ Cardinality({i \in DOMAIN attempted : attempted[i] = s}) <= 1

\* the bootstrap script failed and the run ended after that single launch
C14_Witness ==
    /\ ExitedNonZero("bootstrap")
    /\ calls["bootstrap"] = 1
    /\ pc = "done"

(***************************************************************************)
(* C15: whenever the driver ends with a non-zero status, at least one      *)
(* message tagged ERROR or WARNING has been emitted through the log        *)
(* functions in that run.                                                  *)
(***************************************************************************)
C15_NoSilentFailure ==
    (pc = "done" /\ exitStatus # 0) =>
      \E i \in DOMAIN log : log[i][1] \in {"ERROR", "WARNING"}

(***************************************************************************)
(* C16: check_privileges returns True on linux and macos without making    *)
(* the elevation query; on windows it returns True, after a warning, when  *)
(* the query raises; it returns False only when the query answers          *)
(* not-elevated.                                                           *)
(***************************************************************************)
C16_PrivilegeGate ==
    Len(returned) >= 2 =>
      /\ host_os \in {"linux", "macos"} =>
           elevation = "unasked" /\ returned[2] = TRUE
      /\ host_os = "windows" => elevation \in ElevationOutcomes
      /\ (host_os = "windows" /\ elevation = "raises") =>
           /\ returned[2] = TRUE
           /\ Logged(<<"WARNING", "Could not determine if running as Administrator", "">>)
      /\ returned[2] = FALSE <=> (host_os = "windows" /\ elevation = "not_admin")

\* windows, the elevation query raised and the gate let the run pass
C16_Witness ==
    /\ host_os = "windows"
    /\ elevation = "raises"
    /\ Attempted("bootstrap")

(***************************************************************************)
(* C17: at most one step subprocess is active at any time, and main is     *)
(* blocked in its call while it is; docker build is started only after     *)
(* the bootstrap subprocess has ended, docker run only after docker build  *)
(* has ended.                                                              *)
(***************************************************************************)
C17_OneSubprocessAtATime ==
    /\ Cardinality({s \in Subprocesses : subState[s] = "active"}) <= 1
    /\ \A s \in Subprocesses : subState[s] = "active" => pc = s \o "_wait"
    /\ calls["build"] > 0 => subState["bootstrap"] = "exited"
    /\ calls["run"] > 0 =>
         subState["bootstrap"] = "exited" /\ subState["build"] = "exited"

\* docker run is active, after the two earlier subprocesses ended
C17_Witness ==
    /\ subState["run"] = "active"
    /\ subState["build"] = "exited"

(***************************************************************************)
(* C18: a missing executable is reported apart from a non-zero exit: a     *)
(* bootstrap interpreter that cannot be found gives False with the         *)
(* "not found" message and not the "failed with exit code" one; a docker   *)
(* binary that cannot be found gives False from build_cef_container with   *)
(* the "command not found" message and not the build-failure one; in both  *)
(* cases main returns 1 and no later step is called.                       *)
(***************************************************************************)
LoggedText(text) == \E i \in DOMAIN log : log[i][2] = text

C18_MissingExecutable ==
    /\ subState["bootstrap"] = "not_found" =>
         /\ returned = <<TRUE, TRUE, FALSE>>
         /\ \E i \in DOMAIN log :
              log[i][1] = "ERROR" /\ log[i][2] = "Bootstrap script not found: "
         /\ ~LoggedText("Bootstrap script failed with exit code ")
         /\ ~LoggedText("Failed to run bootstrap script: ")
         /\ pc = "done" /\ exitStatus = 1 /\ ~raised
         /\ attempted = <<"detect", "privileges", "bootstrap">>
         /\ calls["build"] = 0 /\ calls["run"] = 0
    /\ subState["build"] = "not_found" =>
         /\ returned = <<TRUE, TRUE, TRUE, FALSE>>
         /\ Logged(<<"ERROR", "Docker command not found. Please ensure Docker is installed and in PATH", "">>)
         /\ ~LoggedText("Docker build failed with exit code ")
         /\ ~LoggedText("Failed to build container: ")
         /\ pc = "done" /\ exitStatus = 1 /\ ~raised
         /\ attempted = <<"detect", "privileges", "bootstrap", "build">>
         /\ calls["run"] = 0

\* the docker binary was not found when the image build was started
C18_Witness ==
    /\ subState["build"] = "not_found"
    /\ pc = "done"

(***************************************************************************)
(* C19: in every run that reaches docker run, the image tag passed to      *)
(* docker run is the tag passed to docker build in that run,               *)
(* cef-builder-<host id>, and the bind mount maps the output directory to  *)
(* the drive-letter container path on windows and to the POSIX container   *)
(* path on linux and macos.                                                *)
(***************************************************************************)
C19_TagAndMount ==
    calls["run"] > 0 =>
      /\ calls["build"] > 0
      /\ cmd["build"][1] = "docker" /\ cmd["build"][2] = "build" /\ cmd["build"][3] = "-t"
      /\ cmd["run"][1] = "docker" /\ cmd["run"][2] = "run" /\ cmd["run"][4] = "-v"
      /\ cmd["run"][Len(cmd["run"])] = cmd["build"][4]
      /\ cmd["build"][4] = "cef-builder-" \o host_os
      /\ cmd["run"][5] = IF host_os = "windows"
                         THEN "/abs/builds:C:\\workspace\\builds"
                         ELSE "/abs/builds:/workspace/builds"

\* windows, docker run was invoked
C19_Witness ==
    /\ host_os = "windows"
    /\ calls["run"] = 1

(***************************************************************************)
(* C20: a run without the help flag returns 0 only if the bootstrap        *)
(* script, docker build and docker run each exited 0 in that run and the   *)
(* marker was written; a marker write that fails after docker run exited   *)
(* 0 ends the run with a non-zero status.                                  *)
(***************************************************************************)
C20_ZeroOnlyAfterFullSuccess ==
    /\ (pc = "done" /\ exitStatus = 0 /\ ~HelpFlagGiven) =>
         /\ Exited("bootstrap", 0) /\ Exited("build", 0) /\ Exited("run", 0)
         /\ markerIO = "ok"
         /\ marker = [exists |-> TRUE, stamp |-> clock]
         /\ marker # preMarker
    /\ markerIO \in {"open_fails", "write_fails"} =>
         /\ Exited("run", 0)
         /\ pc = "done" /\ exitStatus # 0

\* docker run exited 0 and the marker write failed
C20_Witness ==
    /\ Exited("run", 0)
    /\ markerIO = "write_fails"
    /\ pc = "done"

(***************************************************************************)
(* scripts/update-cef.py                                                   *)
(***************************************************************************)

\* the build driver when it is not running
BuildIdle ==
    /\ argv = <<"build.py">>
    /\ runNo = 1
    /\ pc = "idle"
    /\ config = "unread"
    /\ system = <<>>
    /\ host_os = "none"
    /\ elevation = "unasked"
    /\ attempted = <<>>
    /\ returned = <<>>
    /\ subState = [s \in Subprocesses |-> "idle"]
    /\ subCode = [s \in Subprocesses |-> -1]
    /\ calls = [s \in Subprocesses |-> 0]
    /\ cmd = [s \in Subprocesses |-> <<>>]
    /\ log = <<>>
    /\ usage = FALSE
    /\ exitStatus = -1
    /\ raised = FALSE
    /\ buildsDir = FALSE
    /\ marker = NoMarker
    /\ artifacts = {}
    /\ images = {}
    /\ clock = 1
    /\ preMarker = NoMarker
    /\ preArtifacts = {}
    /\ markerIO = "none"
    /\ startFs = [dir |-> FALSE, marker |-> NoMarker, artifacts |-> {}]

UpdateArgTokens == {"--auto", "--verbose"}

\* sys.argv: the script name followed by at most MaxUpdateArgs arguments
UpdateArgLists ==
    {<<"update-cef.py">> \o rest : rest \in SeqsUpTo(UpdateArgTokens, MaxUpdateArgs)}

\* JSON objects are functions from their keys to strings; valuesOf gives,
\* for each key an object may have, the values it may have there
DictsOver(valuesOf) ==
    {d \in UNION {[D -> UNION {valuesOf[k] : k \in DOMAIN valuesOf}] :
                    D \in SUBSET DOMAIN valuesOf} :
        \A k \in DOMAIN d : d[k] \in valuesOf[k]}

ConfigValues ==
    [cef_version |-> {"120.1", "121.2", "unknown"},
     chromium_branch |-> {"6099"},
     build_type |-> {"Release"}]

\* the objects build-config.json may hold
ConfigDicts == DictsOver(ConfigValues)

\* build-config.json: absent, not JSON, or a JSON object
ConfigFiles ==
    {[kind |-> "missing", data |-> EmptyDict], [kind |-> "invalid", data |-> EmptyDict]}
      \cup {[kind |-> "json", data |-> d] : d \in ConfigDicts}

LatestValues ==
    [cef_version |-> {"120.1", "121.2", ""},
     chromium_version |-> {"6099", ""}]

\* the first entry of data["linux64"]["versions"]
LatestDicts == DictsOver(LatestValues)

\* what requests.get / raise_for_status / response.json() produce
Responses ==
    {[kind |-> k, linux64 |-> FALSE, has_versions |-> FALSE, versions |-> <<>>] :
        k \in {"request_error", "bad_json", "data"}}
      \cup {[kind |-> "data", linux64 |-> TRUE, has_versions |-> h, versions |-> <<>>] :
              h \in BOOLEAN}
      \cup {[kind |-> "data", linux64 |-> TRUE, has_versions |-> TRUE, versions |-> <<d>>] :
              d \in LatestDicts}

\* input(): the line typed, as a sequence of characters, or end of input
Answers ==
    {[outcome |-> "line", text |-> t] :
        t \in {<<"y">>, <<"Y">>, <<"y","e","s">>, <<"Y","e","s">>, <<"n">>, <<>>,
               <<"y","e","s","!">>}}
      \cup {[outcome |-> "eof", text |-> <<>>]}

\* outcome of open(config_file, 'w') and json.dump
SaveOutcomes == {"ok", "open_fails", "write_fails"}

\* outcome of subprocess.run(['git', 'submodule', 'update', ...])
SubmoduleOutcomes ==
    {[launch |-> "not_found", code |-> -1], [launch |-> "os_error", code |-> -1]}
      \cup {[launch |-> "started", code |-> c] : c \in 0 .. MaxExitCode}

\* d.get(k, default)
dict_get(d, k, default) == IF k \in DOMAIN d THEN d[k] ELSE default

\* d[k] = v
dict_set(d, k, v) == [x \in DOMAIN d \cup {k} |-> IF x = k THEN v ELSE d[x]]

\* load_config: what it returns (ok = FALSE stands for None) and what it logs
load_config(file) ==
    CASE file.kind = "missing" ->
           [ok |-> FALSE, value |-> EmptyDict,
            log |-> <<log_error("Configuration file not found: ", "build-config.json")>>]
      [] file.kind = "invalid" ->
           [ok |-> FALSE, value |-> EmptyDict,
            log |-> <<log_error("Invalid JSON in ", "build-config.json")>>]
      [] OTHER ->
           [ok |-> TRUE, value |-> file.data, log |-> <<>>]

\* "if not config": None and the empty object are both false
not_config(loaded) == ~loaded.ok \/ DOMAIN loaded.value = {}

\* get_latest_cef_version: what it returns (found = FALSE stands for
\* (None, None)) and what it logs
get_latest_cef_version(response) ==
    LET fetching == <<log_info("Fetching latest CEF version...", "")>>
        none(entry) == [found |-> FALSE, version |-> "", branch |-> "",
                        log |-> Append(fetching, entry)]
    IN  CASE response.kind = "request_error" ->
               none(log_error("Failed to fetch CEF version: ", "RequestException"))
          [] response.kind = "bad_json" ->
               none(log_error("Failed to parse CEF version JSON: ", "JSONDecodeError"))
          [] response.linux64 /\ response.has_versions /\ response.versions # <<>> ->
               LET latest == response.versions[1]
                   version == dict_get(latest, "cef_version", "unknown")
                   branch == dict_get(latest, "chromium_version", "unknown")
               IN  [found |-> TRUE, version |-> version, branch |-> branch,
                    log |-> Append(fetching,
                                   log_success("Latest CEF version: ", version \o " " \o branch))]
          [] OTHER ->
               none(log_error("Could not parse CEF version data", ""))

\* "if not latest_version": None and the empty string are both false
not_latest_version(latest) == ~latest.found \/ latest.version = ""

\* the prompt is skipped only when the first argument is --auto
asks_confirmation(args) == Len(args) < 2 \/ args[2] # "--auto"

\* variant: every answer confirms
confirmed_always(response) == TRUE

\* response.lower() in ['y', 'yes']
confirmed(response) == Lower(response) \in {<<"y">>, <<"y", "e", "s">>}

\* the config main hands to save_config
updated_config(cfg, latest) ==
    LET versioned == dict_set(cfg, "cef_version", latest.version)
    IN  IF latest.branch # "" /\ latest.branch # "unknown"
        THEN dict_set(versioned, "chromium_branch", latest.branch)
        ELSE versioned

\* save_config: its return value
save_config(outcome) == outcome = "ok"

\* save_config: build-config.json afterwards; open(..., 'w') truncates the
\* file before json.dump writes it
save_config_file(file, cfg, outcome) ==
    CASE outcome = "ok" -> [kind |-> "json", data |-> cfg]
      [] outcome = "open_fails" -> file
      [] OTHER -> [kind |-> "invalid", data |-> EmptyDict]

save_config_log(outcome) ==
    IF outcome = "ok"
    THEN log_success("Configuration updated: ", "build-config.json")
    ELSE log_error("Failed to save configuration: ", outcome)

\* variant: main goes on to the submodule whatever save_config returned
submodule_follows_always(saved) == TRUE

\* main goes on to the submodule only if save_config returned True
submodule_follows(saved) == saved

\* update_submodule: its return value
update_submodule(outcome) == outcome.launch = "started" /\ outcome.code = 0

update_submodule_log(outcome) ==
    <<log_info("Updating CEF source submodule...", ""),
      CASE outcome.launch = "not_found" -> log_error("Git not found", "")
        [] outcome.launch = "os_error" -> log_error("Failed to update submodule: ", "OSError")
        [] outcome.code = 0 -> log_success("CEF submodule updated successfully", "")
        [] OTHER -> log_error("Failed to update submodule: ", "stderr")>>

\* update-cef.py is started
UpdateInit ==
    /\ BuildIdle
    /\ EnvIdle
    /\ uArgv \in UpdateArgLists
    /\ uPc = "load"
    /\ cfgFile \in ConfigFiles
    /\ cfgFile0 = cfgFile
    /\ uConfig = [ok |-> FALSE, value |-> EmptyDict]
    /\ uLatest = [found |-> FALSE, version |-> "", branch |-> ""]
    /\ uAnswer = [outcome |-> "unasked", text |-> <<>>]
    /\ uSave = "none"
    /\ uSubmodule = [launch |-> "none", code |-> -1]
    /\ uLog = <<>>
    /\ uStatus = -1

\* main: load the configuration and report the current version
UpdateLoad ==
    /\ uPc = "load"
    /\ LET loaded == load_config(cfgFile)
           cfg == [ok |-> loaded.ok, value |-> loaded.value]
           banner == <<log_info("CEF Version Updater", "")>> \o loaded.log
       IN  /\ uConfig' = cfg
           /\ IF not_config(cfg)
              THEN /\ uLog' = uLog \o banner
                   /\ uStatus' = 1
                   /\ uPc' = "done"
              ELSE /\ uLog' = uLog \o banner \o
                        <<log_info("Current CEF version: ",
                                   dict_get(cfg.value, "cef_version", "unknown"))>>
                   /\ uStatus' = uStatus
                   /\ uPc' = "fetch"
    /\ UNCHANGED <<uArgv, cfgFile, cfgFile0, uLatest, uAnswer, uSave, uSubmodule>>
    /\ UNCHANGED <<buildVars, envVars>>

\* main: fetch the latest version and compare it with the current one
UpdateFetch ==
    /\ uPc = "fetch"
    /\ \E response \in Responses :
         LET got == get_latest_cef_version(response)
             latest == [found |-> got.found, version |-> got.version, branch |-> got.branch]
             current_version == dict_get(uConfig.value, "cef_version", "unknown")
         IN  /\ uLatest' = latest
             /\ IF not_latest_version(latest)
                THEN /\ uLog' = uLog \o got.log \o
                          <<log_error("Could not determine latest CEF version", "")>>
                     /\ uStatus' = 1
                     /\ uPc' = "done"
                ELSE IF current_version = latest.version
                THEN /\ uLog' = uLog \o got.log \o
                          <<log_info("CEF is already up to date", "")>>
                     /\ uStatus' = 0
                     /\ uPc' = "done"
                ELSE /\ uLog' = uLog \o got.log
                     /\ uStatus' = uStatus
                     /\ uPc' = "confirm"
    /\ UNCHANGED <<uArgv, cfgFile, cfgFile0, uConfig, uAnswer, uSave, uSubmodule>>
    /\ UNCHANGED <<buildVars, envVars>>

\* main: ask for confirmation unless the first argument is --auto; an end of
\* input raises EOFError out of main
UpdateConfirm ==
    /\ uPc = "confirm"
    /\ IF asks_confirmation(uArgv)
       THEN \E answer \in Answers :
              /\ uAnswer' = answer
              /\ IF answer.outcome = "eof"
                 THEN /\ uLog' = uLog
                      /\ uStatus' = 1
                      /\ uPc' = "done"
                 ELSE IF ~confirmed(answer.text)
                 THEN /\ uLog' = Append(uLog, log_info("Update cancelled", ""))
                      /\ uStatus' = 0
                      /\ uPc' = "done"
                 ELSE /\ uLog' = uLog
                      /\ uStatus' = uStatus
                      /\ uPc' = "save"
       ELSE /\ uAnswer' = uAnswer
            /\ uLog' = uLog
            /\ uStatus' = uStatus
            /\ uPc' = "save"
    /\ UNCHANGED <<uArgv, cfgFile, cfgFile0, uConfig, uLatest, uSave, uSubmodule>>
    /\ UNCHANGED <<buildVars, envVars>>

\* main: set the new version in the configuration and save it
UpdateSave ==
    /\ uPc = "save"
    /\ \E outcome \in SaveOutcomes :
         LET cfg == updated_config(uConfig.value, uLatest)
         IN  /\ uConfig' = [uConfig EXCEPT !.value = cfg]
             /\ cfgFile' = save_config_file(cfgFile, cfg, outcome)
             /\ uSave' = outcome
             /\ uLog' = Append(uLog, save_config_log(outcome))
             /\ IF submodule_follows(save_config(outcome))
                THEN /\ uStatus' = uStatus
                     /\ uPc' = "submodule"
                ELSE /\ uStatus' = 1
                     /\ uPc' = "done"
    /\ UNCHANGED <<uArgv, cfgFile0, uLatest, uAnswer, uSubmodule>>
    /\ UNCHANGED <<buildVars, envVars>>

\* main: update the cef-source submodule and return
UpdateSubmodule ==
    /\ uPc = "submodule"
    /\ \E outcome \in SubmoduleOutcomes :
         /\ uSubmodule' = outcome
         /\ IF update_submodule(outcome)
            THEN /\ uLog' = uLog \o update_submodule_log(outcome) \o
                      <<log_success("CEF updated from ",
                                    dict_get(cfgFile0.data, "cef_version", "unknown")
                                      \o " to " \o uLatest.version),
                        log_info("Run your build command to build the new version", "")>>
                 /\ uStatus' = 0
            ELSE /\ uLog' = uLog \o update_submodule_log(outcome) \o
                      <<log_warning("Failed to update submodule, but configuration was updated", "")>>
                 /\ uStatus' = 1
         /\ uPc' = "done"
    /\ UNCHANGED <<uArgv, cfgFile, cfgFile0, uConfig, uLatest, uAnswer, uSave>>
    /\ UNCHANGED <<buildVars, envVars>>

UpdateNext ==
    \/ UpdateLoad
    \/ UpdateFetch
    \/ UpdateConfirm
    \/ UpdateSave
    \/ UpdateSubmodule

UpdateSpec == UpdateInit /\ [][UpdateNext]_vars

(***************************************************************************)
(* Vocabulary of the claims about update-cef.py.                           *)
(***************************************************************************)
\* the cef_version the configuration held when the script started
CurrentVersion ==
    IF "cef_version" \in DOMAIN cfgFile0.data
    THEN cfgFile0.data["cef_version"]
    ELSE "unknown"

ConfigWasLoaded == cfgFile0.kind = "json" /\ uConfig.ok

LatestFetched == uLatest.found /\ uLatest.version # ""

UserAnswered == uAnswer.outcome = "line"

UserConfirmed ==
    /\ UserAnswered
    /\ \/ MatchesIgnoringCase(uAnswer.text, <<"y">>)
       \/ MatchesIgnoringCase(uAnswer.text, <<"y", "e", "s">>)

AutoGiven == \E i \in 2 .. Len(uArgv) : uArgv[i] = "--auto"

SaveAttempted == uSave # "none"

SubmoduleAttempted == uSubmodule.launch # "none"

SubmoduleSucceeded == uSubmodule = [launch |-> "started", code |-> 0]

ConfigChanged == cfgFile # cfgFile0

NewVersionInFile ==
    /\ cfgFile.kind = "json"
    /\ "cef_version" \in DOMAIN cfgFile.data
    /\ cfgFile.data["cef_version"] = uLatest.version

(***************************************************************************)
(* C21: build-config.json is rewritten only when the existing config was   *)
(* loaded, a latest version was fetched, it differs from the current       *)
(* cef_version, and the user answered y/yes or --auto was given; when the  *)
(* config is missing or invalid, the fetch failed, the version is already  *)
(* current or the update was declined, the file is as it was and the       *)
(* submodule update is not run.                                            *)
(***************************************************************************)
C21_RewriteOnlyWhenConfirmed ==
    /\ (ConfigChanged \/ SaveAttempted \/ SubmoduleAttempted) =>
         /\ ConfigWasLoaded
         /\ LatestFetched
         /\ uLatest.version # CurrentVersion
         /\ UserConfirmed \/ AutoGiven
    /\ ( \/ cfgFile0.kind \in {"missing", "invalid"}
         \/ uPc = "done" /\ ~LatestFetched
         \/ LatestFetched /\ uLatest.version = CurrentVersion
         \/ UserAnswered /\ ~UserConfirmed ) =>
         /\ ~ConfigChanged
         /\ ~SaveAttempted
         /\ ~SubmoduleAttempted

\* the user answered "Yes" and the file was rewritten
C21_Witness ==
    /\ uAnswer = [outcome |-> "line", text |-> <<"Y", "e", "s">>]
    /\ ConfigChanged
    /\ NewVersionInFile
    /\ uPc = "done"

(***************************************************************************)
(* C22: the submodule update is attempted only after save_config           *)
(* succeeded; when the submodule update fails main returns 1 and the file  *)
(* keeps the new version; main returns 0 with a changed file only when     *)
(* both the save and the submodule update succeeded.                       *)
(***************************************************************************)
C22_SubmoduleAfterSave ==
    /\ (uPc = "submodule" \/ SubmoduleAttempted) =>
         /\ uSave = "ok"
         /\ NewVersionInFile
    /\ (SubmoduleAttempted /\ ~SubmoduleSucceeded) =>
         /\ uPc = "done" /\ uStatus = 1
         /\ NewVersionInFile
         /\ ConfigChanged
    /\ (uPc = "done" /\ uStatus = 0 /\ ConfigChanged) =>
         /\ uSave = "ok"
         /\ SubmoduleSucceeded

\* the save succeeded and git submodule update exited 1
C22_Witness ==
    /\ uSave = "ok"
    /\ uSubmodule = [launch |-> "started", code |-> 1]
    /\ uPc = "done"

(***************************************************************************)
(* scripts/setup-environment.py                                            *)
(*                                                                         *)
(* What a check hands back to main is one of "True", "False", "None" (the  *)
(* function ended without a return statement) or "raises" (an exception    *)
(* left the function).                                                     *)
(***************************************************************************)

\* sys.version_info as <<major, minor>>
PythonVersions == {<<2, 7>>, <<3, 7>>, <<3, 8>>, <<3, 12>>}

\* outcome of subprocess.run([tool, '--version'])
ToolOutcomes ==
    {[launch |-> "not_found", code |-> -1], [launch |-> "os_error", code |-> -1]}
      \cup {[launch |-> "started", code |-> c] : c \in 0 .. MaxExitCode}

BuildTools == {"gcc", "g++", "make", "cmake"}

\* what check_build_tools finds: the platform name, how each Linux tool
\* starts, whether a Visual Studio directory exists, how xcode-select runs
BuildToolEnvs ==
    [system : PlatformNames,
     missing : SUBSET BuildTools,
     unstartable : BOOLEAN,
     vs_found : BOOLEAN,
     xcode : ToolOutcomes]

\* shutil.disk_usage('.'): free space in GB, or an exception
DiskStates ==
    {[error |-> TRUE, free_gb |-> 0]}
      \cup {[error |-> FALSE, free_gb |-> g] : g \in {0, 19, 20, 49, 50}}

\* import psutil / psutil.virtual_memory()
MemoryStates == {"no_psutil", "low", "enough", "psutil_error"}

RequiredKeys == {"cef_version", "target_platform", "build_type"}

RequiredValues == [k \in RequiredKeys |-> {"set"}]

\* build-config.json as validate_config finds it
EnvConfigFiles ==
    {[kind |-> k, data |-> EmptyDict] : k \in {"missing", "invalid", "unreadable"}}
      \cup {[kind |-> "json", data |-> d] : d \in DictsOver(RequiredValues)}

\* the working tree as check_submodules finds it
SubmoduleStates ==
    [git : BOOLEAN, cef_source : {"absent", "empty", "populated", "not_a_directory"}]

check_python_version(version) ==
    IF version[1] < 3 \/ (version[1] = 3 /\ version[2] < 8) THEN "False" ELSE "True"

\* only FileNotFoundError is handled
check_git(outcome) ==
    CASE outcome.launch = "os_error" -> "raises"
      [] outcome.launch = "started" /\ outcome.code = 0 -> "True"
      [] OTHER -> "False"

check_docker(outcome) ==
    CASE outcome.launch = "os_error" -> "raises"
      [] outcome.launch = "started" /\ outcome.code = 0 -> "True"
      [] OTHER -> "False"

\* no branch of check_build_tools has a return statement
check_build_tools(env) ==
    LET platform_name == Lower(env.system)
    IN  CASE platform_name = <<"l","i","n","u","x">> ->
               IF env.unstartable THEN "raises" ELSE "None"
          [] platform_name = <<"w","i","n","d","o","w","s">> -> "None"
          [] platform_name = <<"d","a","r","w","i","n">> ->
               IF env.xcode.launch = "os_error" THEN "raises" ELSE "None"
          [] OTHER -> "None"

check_disk_space(disk) ==
    IF ~disk.error /\ disk.free_gb < 20 THEN "False" ELSE "True"

\* only ImportError is handled
check_memory(memory) ==
    IF memory = "psutil_error" THEN "raises" ELSE "True"

\* only json.JSONDecodeError is handled
validate_config(file) ==
    CASE file.kind = "missing" -> "False"
      [] file.kind = "unreadable" -> "raises"
      [] file.kind = "invalid" -> "False"
      [] RequiredKeys \ DOMAIN file.data # {} -> "False"
      [] OTHER -> "True"

check_submodules(tree) ==
    CASE ~tree.git -> "False"
      [] tree.cef_source = "absent" -> "False"
      [] tree.cef_source = "not_a_directory" -> "raises"
      [] tree.cef_source = "empty" -> "False"
      [] OTHER -> "True"

\* the list main walks
checks ==
    <<"Python Version", "Git", "Docker", "Build Tools", "Disk Space", "Memory",
      "Configuration", "Submodules">>

\* what the named check can hand back
check_func(check_name) ==
    CASE check_name = "Python Version" -> {check_python_version(v) : v \in PythonVersions}
      [] check_name = "Git" -> {check_git(o) : o \in ToolOutcomes}
      [] check_name = "Docker" -> {check_docker(o) : o \in ToolOutcomes}
      [] check_name = "Build Tools" -> {check_build_tools(e) : e \in BuildToolEnvs}
      [] check_name = "Disk Space" -> {check_disk_space(d) : d \in DiskStates}
      [] check_name = "Memory" -> {check_memory(m) : m \in MemoryStates}
      [] check_name = "Configuration" -> {validate_config(f) : f \in EnvConfigFiles}
      [] OTHER -> {check_submodules(t) : t \in SubmoduleStates}

\* "if check_func():" None and False are both false
truthy(result) == result = "True"

\* setup-environment.py is started
EnvInit ==
    /\ BuildIdle
    /\ UpdIdle
    /\ ePc = "checks"
    /\ eResults = <<>>
    /\ passed = 0
    /\ failed = 0
    /\ eStatus = -1

\* main: one turn of the loop over the checks
RunCheck ==
    /\ ePc = "checks"
    /\ Len(eResults) < Len(checks)
    /\ \E result \in check_func(checks[Len(eResults) + 1]) :
         /\ eResults' = Append(eResults, result)
         /\ IF result # "raises" /\ truthy(result)
            THEN passed' = passed + 1 /\ failed' = failed
            ELSE passed' = passed /\ failed' = failed + 1
    /\ UNCHANGED <<ePc, eStatus>>
    /\ UNCHANGED <<buildVars, updVars>>

\* main: the summary and the return value
Summarise ==
    /\ ePc = "checks"
    /\ Len(eResults) = Len(checks)
    /\ eStatus' = IF failed = 0 THEN 0 ELSE 1
    /\ ePc' = "done"
    /\ UNCHANGED <<eResults, passed, failed>>
    /\ UNCHANGED <<buildVars, updVars>>

EnvNext ==
    \/ RunCheck
    \/ Summarise

EnvSpec == EnvInit /\ [][EnvNext]_vars

(***************************************************************************)
(* C23: all eight checks are run once and counted once (passed + failed =  *)
(* 8); a check counts as failed only when it returned False or raised, so  *)
(* a run in which no check returned False or raised ends with failed = 0   *)
(* and exit status 0, and main returns 1 otherwise.                        *)
(***************************************************************************)
FalseOrRaised == {i \in DOMAIN eResults : eResults[i] \in {"False", "raises"}}

C23_FailedOnlyOnFalseOrRaise ==
    ePc = "done" =>
      /\ Len(eResults) = 8
      /\ passed + failed = 8
      /\ failed = Cardinality(FalseOrRaised)
      /\ FalseOrRaised = {} => (failed = 0 /\ eStatus = 0)
      /\ FalseOrRaised # {} => eStatus = 1

====
